---- MODULE Spec2Model ----
(***************************************************************************)
(* Model of package selfupdate (wuc656/go-selfupdate): the update cycle of *)
(* an Updater session (BackgroundRun, Update, UpdateForce) and the         *)
(* replacement transaction fromStream, over an explicit file system of the *)
(* executable's directory and a nondeterministic update server.            *)
(*                                                                         *)
(* Every public call is a sequence of steps; one action per step.  Each    *)
(* step that talks to the outside world (the OS, the network) draws the    *)
(* outcome from the outcomes that world can produce.                       *)
(***************************************************************************)
EXTENDS Integers, Sequences, FiniteSets, TLC

\* ------------------------------------------------------------------ bounds
\* Length in bytes of a complete executable image.
MaxLen == 1
\* Number of public calls one session makes (the session is reused).
MaxCalls == 2

\* ------------------------------------------------------- program constants
\* Permission bits passed to os.OpenFile for the staged file (0755).
StagePerm == 493
\* The only HTTP status the default requester accepts.
StatusOK == 200
\* dwFileAttributes value hideFile passes: FILE_ATTRIBUTE_HIDDEN.
FileAttributeHidden == 2

\* The sentinel version of WantUpdate.
Dev == "dev"

\* ------------------------------------------------------------ environment
\* Two cycles can exist; the sequential specification Spec runs only the first.
Procs == {1, 2}

\* Versions a session can be built with, and versions a manifest can
\* advertise: equal to the running one, or different (here older; the code
\* compares for equality only).
CurrentVersions == {"dev", "1.1"}
ManifestVersions == {"1.0", "1.1"}

\* A byte string of n bytes, all equal to b.
Bytes(b, n) == [i \in 1..n |-> b]

\* The image installed at first, and the complete image the server's artifact
\* decompresses to when cycle p downloads it. The code never looks into an
\* image; the bytes only tell the images, and their prefixes, apart.
OrigImage == Bytes(0, MaxLen)
ImageOf(p) == Bytes(p, MaxLen)

\* Permission bits the installed executable can have at first (0755, 0700).
OrigPerms == {493, 448}

\* Paths of the model: the path os.Executable reports ("exe"), the file a
\* symlink at that path points to ("target", in another directory), and the
\* two dotted names fromStream derives from the reported path.
Paths == {"exe", "target", "new", "old"}

NoFile == [kind |-> "none", content |-> <<>>, perm |-> 0, attr |-> 0]
RegFile(c, m) == [kind |-> "file", content |-> c, perm |-> m, attr |-> 0]
SymLink == [kind |-> "link", content |-> <<>>, perm |-> 0, attr |-> 0]

Exists(f, p) == f[p].kind # "none"

\* filepath.EvalSymlinks on a path of the model.
EvalSymlinks(f, p) == IF f[p].kind = "link" THEN "target" ELSE p

\* The bytes a reader of path p gets (symlinks followed).
ReadFile(f, p) == f[EvalSymlinks(f, p)].content

\* os.Rename that succeeds: dst is replaced by src, src is gone.
Rename(f, src, dst) == [f EXCEPT ![dst] = f[src], ![src] = NoFile]

\* os.Remove that succeeds.
Remove(f, p) == [f EXCEPT ![p] = NoFile]

\* os.OpenFile(p, O_CREATE|O_WRONLY|O_TRUNC, perm) that succeeds: an existing
\* file is truncated and keeps its mode, a missing one is created with perm.
OpenTrunc(f, p, m) ==
    IF Exists(f, p) THEN [f EXCEPT ![p].content = <<>>]
    ELSE [f EXCEPT ![p] = RegFile(<<>>, m)]

\* io.Copy into the open file that wrote the first k bytes of b.
WriteBytes(f, p, b, k) == [f EXCEPT ![p].content = SubSeq(b, 1, k)]

\* hideFile that succeeds: SetFileAttributesW(path, FILE_ATTRIBUTE_HIDDEN).
hideFile(f, p) == [f EXCEPT ![p].attr = FileAttributeHidden]

IsHidden(file) == file.attr = FileAttributeHidden

\* ------------------------------------------------------------------ state
VARIABLES
    fs,                 \* the file system: Paths -> file
    CurrentVersion,     \* Updater.CurrentVersion
    Info,               \* Updater.Info.Version
    Requester,          \* Updater.Requester: "nil" (default HTTP) or "custom"
    OnSuccessfulUpdate, \* whether Updater.OnSuccessfulUpdate is set
    pc,                 \* per cycle: the step it is at
    op,                 \* per cycle: the public operation it was called as
    path,               \* per cycle: local `path` of Update / UpdateForce
    bin,                \* per cycle: local `bin`, the decoded image
    err,                \* per cycle: fromStream's result err ("" is nil)
    errRecover,         \* per cycle: fromStream's result errRecover
    ret,                \* per cycle: the error the call returned (<<>> is nil)
    want,               \* per cycle: what WantUpdate returned to BackgroundRun
    steps,              \* per cycle: what the call did so far, in order
    pre,                \* per cycle: the file system when the call began
    cb,                 \* per cycle: callback invocations within the call
    ncalls,             \* per cycle: calls completed
    avail,              \* per cycle: the string UpdateAvailable returned
    fetched             \* per cycle: the last answer met and what fetch made of it

vars == <<fs, CurrentVersion, Info, Requester, OnSuccessfulUpdate, pc, op,
          path, bin, err, errRecover, ret, want, steps, pre, cb, ncalls,
          avail, fetched>>

session == <<CurrentVersion, Requester, OnSuccessfulUpdate>>
locals == <<path, bin, err, errRecover>>

\* An entry of `steps`: what happened, and the version it was about if any.
Ev(name, arg) == <<name, arg>>
Log(p, name, arg) == steps' = [steps EXCEPT ![p] = Append(@, Ev(name, arg))]
Log2(p, e1, e2) == steps' = [steps EXCEPT ![p] = @ \o <<e1, e2>>]
LogSeq(p, es) == steps' = [steps EXCEPT ![p] = @ \o es]
Has(p, name) == \E i \in DOMAIN steps[p] : steps[p][i][1] = name
HasEv(p, name, arg) == \E i \in DOMAIN steps[p] : steps[p][i] = Ev(name, arg)
Pos(p, name) == CHOOSE i \in DOMAIN steps[p] : steps[p][i][1] = name
Count(p, name) == Cardinality({i \in DOMAIN steps[p] : steps[p][i][1] = name})

\* The call of cycle p returns error e.
Return(p, e) ==
    /\ pc' = [pc EXCEPT ![p] = "done"]
    /\ ret' = [ret EXCEPT ![p] = e]

Goto(p, l) == pc' = [pc EXCEPT ![p] = l]

\* ---------------------------------------------------------------- network
\* What the world answers to one request: a transport error, a response
\* with a status and a body, or (an injected Requester only) nothing at all.
NoBody == <<"none", <<>>>>
Answer(t, s, b) == [t |-> t, status |-> s, body |-> b]

\* Statuses other than 200 a server answers with: No Content, Not Found.
BadStatuses == {204, 404}

\* Bodies a manifest URL can serve: not JSON, JSON without a Version field,
\* or {"Version": v}.
ManifestBodies ==
    {<<"bad", <<>>>>, <<"nofield", <<>>>>} \cup {<<"ok", <<v>>>> : v \in ManifestVersions}

\* Bodies an artifact URL can serve: a corrupt stream, or the compressed image.
ArtifactBodies(p) == {<<"corrupt", <<>>>>, <<"ok", ImageOf(p)>>}

\* The answers the requester req can meet.
Answers(req, bodies) ==
    {Answer("neterr", 0, NoBody)}
    \cup {Answer("resp", StatusOK, b) : b \in bodies}
    \cup (IF req = "nil"
          THEN {Answer("resp", st, NoBody) : st \in BadStatuses}
          ELSE {Answer("nilnil", 0, NoBody)})

\* A (ReadCloser, error) pair: rc says whether the ReadCloser is non-nil.
Stream(b) == [rc |-> TRUE, body |-> b, err |-> ""]
Failure(e) == [rc |-> FALSE, body |-> NoBody, err |-> e]
NilNil == [rc |-> FALSE, body |-> NoBody, err |-> ""]

\* HTTPRequester.Fetch.
HTTPRequesterFetch(w) ==
    IF w.t = "neterr" THEN Failure("fetch")
    ELSE IF w.status # StatusOK THEN Failure("status")
    ELSE Stream(w.body)

\* An injected Requester's Fetch: whatever the caller's code returns.
CustomFetch(w) ==
    IF w.t = "neterr" THEN Failure("fetch")
    ELSE IF w.t = "nilnil" THEN NilNil
    ELSE Stream(w.body)

\* A fetch that hands on whatever the injected Requester returned.
fetchUnchecked(req, w) ==
    IF req = "nil" THEN HTTPRequesterFetch(w)
    ELSE LET r == CustomFetch(w) IN
         IF r.err # "" THEN Failure(r.err)
         ELSE r

\* Updater.fetch.
fetch(req, w) ==
    IF req = "nil" THEN HTTPRequesterFetch(w)
    ELSE LET r == CustomFetch(w) IN
         IF r.err # "" THEN Failure(r.err)
         ELSE IF ~r.rc THEN Failure("nilrc")
         ELSE r

\* What a cycle remembers of its last request: the answer the requester met
\* and the (ReadCloser, error) pair Updater.fetch returned for it.
NoFetch == [w |-> Answer("none", 0, NoBody), r |-> Failure("none")]
Fetched(p, w, r) == fetched' = [fetched EXCEPT ![p] = [w |-> w, r |-> r]]

\* json.NewDecoder(r).Decode(&u.Info): the error, and u.Info.Version after.
DecodeInfo(body, info) ==
    IF body[1] \in {"bad", "none"} THEN [err |-> "decode", version |-> info]
    ELSE IF body[1] = "nofield" THEN [err |-> "", version |-> info]
    ELSE [err |-> "", version |-> body[2][1]]

\* zstd.NewReader + io.Copy of fetchBin: the error, and the image.
DecodeBin(body) ==
    IF body[1] = "ok" THEN [err |-> "", bin |-> body[2]]
    ELSE [err |-> "decode", bin |-> <<>>]

\* ------------------------------------------------------------------- init
InitSession ==
    /\ CurrentVersion \in CurrentVersions
    /\ Info = ""
    /\ Requester \in {"nil", "custom"}
    /\ OnSuccessfulUpdate \in BOOLEAN

\* The executable is a regular file, or a symlink to one in another directory.
InitFs ==
    \E m \in OrigPerms :
        \/ fs = [p \in Paths |-> IF p = "exe" THEN RegFile(OrigImage, m) ELSE NoFile]
        \/ fs = [p \in Paths |-> IF p = "exe" THEN SymLink
                                 ELSE IF p = "target" THEN RegFile(OrigImage, m)
                                 ELSE NoFile]

InitLocals ==
    /\ op = [p \in Procs |-> ""]
    /\ path = [p \in Procs |-> ""]
    /\ bin = [p \in Procs |-> <<>>]
    /\ err = [p \in Procs |-> ""]
    /\ errRecover = [p \in Procs |-> ""]
    /\ ret = [p \in Procs |-> <<>>]
    /\ want = [p \in Procs |-> FALSE]
    /\ steps = [p \in Procs |-> <<>>]
    /\ pre = [p \in Procs |-> fs]
    /\ cb = [p \in Procs |-> 0]
    /\ ncalls = [p \in Procs |-> 0]
    /\ avail = [p \in Procs |-> ""]
    /\ fetched = [p \in Procs |-> NoFetch]

\* One cycle at a time: the second cycle never starts.
Init ==
    /\ InitSession
    /\ InitFs
    /\ InitLocals
    /\ pc = [p \in Procs |-> IF p = 1 THEN "idle" ELSE "off"]

\* ------------------------------------------------------------ entry points
\* The caller invokes a public operation on the session (again, once the
\* previous call has returned).
Call(p) ==
    /\ pc[p] \in {"idle", "done"}
    /\ ncalls[p] < MaxCalls
    /\ ncalls' = [ncalls EXCEPT ![p] = @ + 1]
    /\ \E o \in {"Update", "UpdateForce", "BackgroundRun", "UpdateAvailable"} :
        /\ op' = [op EXCEPT ![p] = o]
        /\ Goto(p, o)
    /\ pre' = [pre EXCEPT ![p] = fs]
    /\ path' = [path EXCEPT ![p] = ""]
    /\ bin' = [bin EXCEPT ![p] = <<>>]
    /\ err' = [err EXCEPT ![p] = ""]
    /\ errRecover' = [errRecover EXCEPT ![p] = ""]
    /\ ret' = [ret EXCEPT ![p] = <<>>]
    /\ want' = [want EXCEPT ![p] = FALSE]
    /\ steps' = [steps EXCEPT ![p] = <<>>]
    /\ cb' = [cb EXCEPT ![p] = 0]
    /\ avail' = [avail EXCEPT ![p] = ""]
    /\ fetched' = [fetched EXCEPT ![p] = NoFetch]
    /\ UNCHANGED <<fs, Info, session>>

\* A WantUpdate that does not know the sentinel.
WantUpdateAlways(cv) == TRUE

\* Updater.WantUpdate.
WantUpdate(cv) == cv # Dev

\* A BackgroundRun that goes to Update without the probe.
BackgroundRunNoProbe(p) ==
    /\ pc[p] = "BackgroundRun"
    /\ want' = [want EXCEPT ![p] = WantUpdate(CurrentVersion)]
    /\ IF WantUpdate(CurrentVersion)
       THEN Goto(p, "Update") /\ UNCHANGED ret
       ELSE Return(p, <<>>)
    /\ UNCHANGED <<fs, Info, session, locals, op, steps, pre, cb, ncalls, avail, fetched>>

\* Updater.BackgroundRun up to its calls of canUpdate and Update.
BackgroundRun(p) ==
    /\ pc[p] = "BackgroundRun"
    /\ want' = [want EXCEPT ![p] = WantUpdate(CurrentVersion)]
    /\ IF WantUpdate(CurrentVersion)
       THEN Goto(p, "canUpdate") /\ UNCHANGED ret
       ELSE Return(p, <<>>)
    /\ UNCHANGED <<fs, Info, session, locals, op, steps, pre, cb, ncalls, avail, fetched>>

\* canUpdate, and BackgroundRun's return of its error.
canUpdate(p) ==
    /\ pc[p] = "canUpdate"
    /\ \/ \* os.Executable fails
          /\ Return(p, <<"exe">>)
          /\ UNCHANGED <<fs, steps>>
       \/ \* the probe file cannot be opened
          /\ Return(p, <<"probe">>)
          /\ Log(p, "probe_fail", "")
          /\ UNCHANGED fs
       \/ \* created (or truncated), closed, removed
          /\ fs' = Remove(OpenTrunc(fs, "new", StagePerm), "new")
          /\ Log(p, "probe_ok", "")
          /\ Goto(p, "Update")
          /\ UNCHANGED ret
       \/ \* created (or truncated), closed; the ignored os.Remove fails
          /\ fs' = OpenTrunc(fs, "new", StagePerm)
          /\ Log(p, "probe_left", "")
          /\ Goto(p, "Update")
          /\ UNCHANGED ret
    /\ UNCHANGED <<Info, session, locals, op, want, pre, cb, ncalls, avail, fetched>>

\* ----------------------------------------------------------------- Update
\* The local `path` after filepath.EvalSymlinks(path): the resolved path, or
\* the reported one when resolution fails (nothing exists at the path).
ResolvedPath(f) == IF Exists(f, "exe") THEN EvalSymlinks(f, "exe") ELSE "exe"

\* Update: os.Executable and filepath.EvalSymlinks.
Update(p) ==
    /\ pc[p] = "Update"
    /\ \/ \* os.Executable fails
          /\ Return(p, <<"exe">>)
          /\ UNCHANGED path
       \/ /\ path' = [path EXCEPT ![p] = ResolvedPath(fs)]
          /\ Goto(p, "FetchInfo")
          /\ UNCHANGED ret
    /\ UNCHANGED <<fs, Info, session, bin, err, errRecover, op, want, steps,
                   pre, cb, ncalls, avail, fetched>>

\* A comparison that never finds the versions equal.
UpToDateNever(info, cv) == FALSE

\* Update: "we are on the latest version, nothing to do".
UpToDate(info, cv) == info = cv

\* Update: u.FetchInfo() and the version comparison that follows it.
FetchInfo(p) ==
    /\ pc[p] = "FetchInfo"
    /\ \E w \in Answers(Requester, ManifestBodies) :
        LET r == fetch(Requester, w)
            d == DecodeInfo(r.body, Info)
        IN  /\ Fetched(p, w, r)
            /\ IF r.err # ""
               THEN /\ Return(p, <<r.err>>)
                    /\ Log(p, "manifest_req", "")
                    /\ UNCHANGED Info
               ELSE IF d.err # ""
               THEN /\ Return(p, <<d.err>>)
                    /\ Log(p, "manifest_req", "")
                    /\ UNCHANGED Info
               ELSE /\ Info' = d.version
                    /\ Log2(p, Ev("manifest_req", ""), Ev("manifest_ok", d.version))
                    /\ IF UpToDate(d.version, CurrentVersion)
                       THEN Return(p, <<>>)
                       ELSE Goto(p, "Open") /\ UNCHANGED ret
    /\ UNCHANGED <<fs, session, locals, op, want, pre, cb, ncalls, avail>>

\* Update: os.Open(path).
Open(p) ==
    /\ pc[p] = "Open"
    /\ \/ /\ Return(p, <<"open">>)
          /\ Log(p, "open_fail", "")
       \/ /\ Exists(fs, path[p])
          /\ Goto(p, "fetchBin")
          /\ Log(p, "open_ok", "")
          /\ UNCHANGED ret
    /\ UNCHANGED <<fs, Info, session, locals, op, want, pre, cb, ncalls, avail, fetched>>

\* A fetchBin whose caller logs the error and installs what was read anyway.
fetchBinKeepsGoing(p) ==
    /\ pc[p] = "fetchBin"
    /\ \E w \in Answers(Requester, ArtifactBodies(p)) :
        LET r == fetch(Requester, w)
            d == DecodeBin(r.body)
        IN  /\ Fetched(p, w, r)
            /\ bin' = [bin EXCEPT ![p] = d.bin]
            /\ IF r.err # "" \/ d.err # ""
               THEN Log(p, "artifact_req", Info)
               ELSE Log2(p, Ev("artifact_req", Info), Ev("artifact_ok", Info))
            /\ Goto(p, "stage")
            /\ UNCHANGED ret
    /\ UNCHANGED <<fs, Info, session, path, err, errRecover, op, want, pre, cb,
                   ncalls, avail>>

\* fetchFullBin / fetchBin, and the caller's return of its error.
fetchBin(p) ==
    /\ pc[p] = "fetchBin"
    /\ \E w \in Answers(Requester, ArtifactBodies(p)) :
        LET r == fetch(Requester, w)
            d == DecodeBin(r.body)
        IN  /\ Fetched(p, w, r)
            /\ IF r.err # ""
               THEN /\ Return(p, <<r.err>>)
                    /\ Log(p, "artifact_req", Info)
                    /\ UNCHANGED bin
               ELSE IF d.err # ""
               THEN /\ Return(p, <<d.err>>)
                    /\ Log(p, "artifact_req", Info)
                    /\ UNCHANGED bin
               ELSE /\ bin' = [bin EXCEPT ![p] = d.bin]
                    /\ Log2(p, Ev("artifact_req", Info), Ev("artifact_ok", Info))
                    /\ Goto(p, "stage")
                    /\ UNCHANGED ret
    /\ UNCHANGED <<fs, Info, session, path, err, errRecover, op, want, pre, cb,
                   ncalls, avail>>

\* A comparison that keeps quiet about a downgrade.
AvailableVersionNoDowngrade(info, cv) ==
    IF info = cv \/ (info = "1.0" /\ cv = "1.1") THEN "" ELSE info
\* The version UpdateAvailable answers with once the manifest is in u.Info.
AvailableVersion(info, cv) == IF info = cv THEN "" ELSE info

\* UpdateAvailable: os.Executable, os.Open of that path, FetchInfo, then the
\* comparison of u.Info.Version with CurrentVersion.
UpdateAvailable(p) ==
    /\ pc[p] = "UpdateAvailable"
    /\ \/ \* os.Executable fails
          /\ Return(p, <<"exe">>)
          /\ UNCHANGED <<Info, steps, avail, fetched>>
       \/ \* os.Open fails
          /\ Return(p, <<"open">>)
          /\ Log(p, "open_fail", "")
          /\ UNCHANGED <<Info, avail, fetched>>
       \/ /\ Exists(fs, EvalSymlinks(fs, "exe"))
          /\ \E w \in Answers(Requester, ManifestBodies) :
              LET r == fetch(Requester, w)
                  d == DecodeInfo(r.body, Info)
                  o == Ev("open_ok", "")
                  q == Ev("manifest_req", "")
              IN  /\ Fetched(p, w, r)
                  /\ IF r.err # ""
                     THEN /\ Return(p, <<r.err>>)
                          /\ LogSeq(p, <<o, q>>)
                          /\ UNCHANGED <<Info, avail>>
                     ELSE IF d.err # ""
                     THEN /\ Return(p, <<d.err>>)
                          /\ LogSeq(p, <<o, q>>)
                          /\ UNCHANGED <<Info, avail>>
                     ELSE /\ Info' = d.version
                          /\ LogSeq(p, <<o, q, Ev("manifest_ok", d.version)>>)
                          /\ avail' = [avail EXCEPT ![p] =
                                           AvailableVersion(d.version, CurrentVersion)]
                          /\ Return(p, <<>>)
    /\ UNCHANGED <<fs, session, locals, op, want, pre, cb, ncalls>>

\* ------------------------------------------------------------ UpdateForce
\* UpdateForce: os.Executable, filepath.EvalSymlinks and os.Open(path).
UpdateForce(p) ==
    /\ pc[p] = "UpdateForce"
    /\ \/ \* os.Executable fails
          /\ Return(p, <<"exe">>)
          /\ UNCHANGED <<path, steps>>
       \/ \* os.Open fails
          /\ path' = [path EXCEPT ![p] = ResolvedPath(fs)]
          /\ Return(p, <<"open">>)
          /\ Log(p, "open_fail", "")
       \/ \* os.Open succeeds
          /\ Exists(fs, ResolvedPath(fs))
          /\ path' = [path EXCEPT ![p] = ResolvedPath(fs)]
          /\ Goto(p, "fetchBin")
          /\ Log(p, "open_ok", "")
          /\ UNCHANGED ret
    /\ UNCHANGED <<fs, Info, session, bin, err, errRecover, op, want, pre, cb,
                   ncalls, avail, fetched>>

\* ------------------------------------------------------------- fromStream
\* fromStream: os.Executable, io.ReadAll, then staging: os.OpenFile of
\* .name.new and io.Copy of the image into it.
stage(p) ==
    /\ pc[p] = "stage"
    /\ \/ \* os.Executable fails
          /\ err' = [err EXCEPT ![p] = "exe"]
          /\ Goto(p, "result")
          /\ UNCHANGED <<fs, steps>>
       \/ \* os.OpenFile fails
          /\ err' = [err EXCEPT ![p] = "stage_open"]
          /\ Log(p, "stage_openfail", "")
          /\ Goto(p, "result")
          /\ UNCHANGED fs
       \/ \* the whole image is written
          /\ fs' = WriteBytes(OpenTrunc(fs, "new", StagePerm), "new", bin[p], Len(bin[p]))
          /\ err' = [err EXCEPT ![p] = ""]
          /\ Log(p, "stage_ok", "")
          /\ Goto(p, "evacuate")
       \/ \* io.Copy fails after k bytes (disk full)
          /\ \E k \in 0..(Len(bin[p]) - 1) :
                fs' = WriteBytes(OpenTrunc(fs, "new", StagePerm), "new", bin[p], k)
          /\ err' = [err EXCEPT ![p] = "copy"]
          /\ Log(p, "stage_partial", "")
          /\ Goto(p, "evacuate")
    /\ UNCHANGED <<Info, session, path, bin, errRecover, op, ret, want, pre, cb,
                   ncalls, avail, fetched>>

\* An evacuation whose failure does not end fromStream.
evacuateGoesOn(p) ==
    /\ pc[p] = "evacuate"
    /\ \E removed \in {FALSE, Exists(fs, "old")} :
        LET f1 == IF removed THEN Remove(fs, "old") ELSE fs
            ev == IF removed THEN <<Ev("old_removed", "")>>
                  ELSE IF Exists(fs, "old") THEN <<Ev("old_remove_fail", "")>>
                  ELSE <<>>
        IN  \/ /\ fs' = f1
               /\ err' = [err EXCEPT ![p] = "evacuate"]
               /\ LogSeq(p, ev \o <<Ev("evac_fail", "")>>)
               /\ Goto(p, "promote")
            \/ /\ Exists(f1, "exe")
               /\ fs' = Rename(f1, "exe", "old")
               /\ err' = [err EXCEPT ![p] = ""]
               /\ LogSeq(p, ev \o <<Ev("evac_ok", "")>>)
               /\ Goto(p, "promote")
    /\ UNCHANGED <<Info, session, path, bin, errRecover, op, ret, want, pre, cb,
                   ncalls, avail, fetched>>

\* fromStream: the ignored os.Remove(oldPath), then os.Rename(updatePath,
\* oldPath), whose result is assigned to err.
evacuate(p) ==
    /\ pc[p] = "evacuate"
    /\ \E removed \in {FALSE, Exists(fs, "old")} :
        LET f1 == IF removed THEN Remove(fs, "old") ELSE fs
            ev == IF removed THEN <<Ev("old_removed", "")>>
                  ELSE IF Exists(fs, "old") THEN <<Ev("old_remove_fail", "")>>
                  ELSE <<>>
        IN  \/ /\ fs' = f1
               /\ err' = [err EXCEPT ![p] = "evacuate"]
               /\ LogSeq(p, ev \o <<Ev("evac_fail", "")>>)
               /\ Goto(p, "result")
            \/ /\ Exists(f1, "exe")
               /\ fs' = Rename(f1, "exe", "old")
               /\ err' = [err EXCEPT ![p] = ""]
               /\ LogSeq(p, ev \o <<Ev("evac_ok", "")>>)
               /\ Goto(p, "promote")
    /\ UNCHANGED <<Info, session, path, bin, errRecover, op, ret, want, pre, cb,
                   ncalls, avail, fetched>>

\* A promote whose rename error is dropped like the one of io.Copy.
promoteUnchecked(p) ==
    /\ pc[p] = "promote"
    /\ \/ /\ Exists(fs, "new")
          /\ fs' = Rename(fs, "new", "exe")
          /\ Log(p, "promote_ok", "")
       \/ /\ Log(p, "promote_fail", "")
          /\ UNCHANGED fs
    /\ err' = [err EXCEPT ![p] = ""]
    /\ Goto(p, "cleanup")
    /\ UNCHANGED <<Info, session, path, bin, errRecover, op, ret, want, pre, cb,
                   ncalls, avail, fetched>>

\* fromStream: os.Rename(newPath, updatePath).
promote(p) ==
    /\ pc[p] = "promote"
    /\ \/ /\ Exists(fs, "new")
          /\ fs' = Rename(fs, "new", "exe")
          /\ err' = [err EXCEPT ![p] = ""]
          /\ Log(p, "promote_ok", "")
          /\ Goto(p, "cleanup")
       \/ /\ err' = [err EXCEPT ![p] = "promote"]
          /\ Log(p, "promote_fail", "")
          /\ Goto(p, "recover")
          /\ UNCHANGED fs
    /\ UNCHANGED <<Info, session, path, bin, errRecover, op, ret, want, pre, cb,
                   ncalls, avail, fetched>>

\* A recovery that renames the staged file, not the backup, into place.
recoverFromStaged(p) ==
    /\ pc[p] = "recover"
    /\ \/ /\ Exists(fs, "new")
          /\ fs' = Rename(fs, "new", "exe")
          /\ errRecover' = [errRecover EXCEPT ![p] = ""]
          /\ Log(p, "recover_ok", "")
       \/ /\ errRecover' = [errRecover EXCEPT ![p] = "recover"]
          /\ Log(p, "recover_fail", "")
          /\ UNCHANGED fs
    /\ Goto(p, "result")
    /\ UNCHANGED <<Info, session, path, bin, err, op, ret, want, pre, cb, ncalls, avail, fetched>>

\* fromStream, promote failed: errRecover = os.Rename(oldPath, updatePath).
recover(p) ==
    /\ pc[p] = "recover"
    /\ \/ /\ Exists(fs, "old")
          /\ fs' = Rename(fs, "old", "exe")
          /\ errRecover' = [errRecover EXCEPT ![p] = ""]
          /\ Log(p, "recover_ok", "")
       \/ /\ errRecover' = [errRecover EXCEPT ![p] = "recover"]
          /\ Log(p, "recover_fail", "")
          /\ UNCHANGED fs
    /\ Goto(p, "result")
    /\ UNCHANGED <<Info, session, path, bin, err, op, ret, want, pre, cb, ncalls, avail, fetched>>

\* A cleanup whose failure to remove the backup is reported as the error.
cleanupFatal(p) ==
    /\ pc[p] = "cleanup"
    /\ \/ /\ Exists(fs, "old")
          /\ fs' = Remove(fs, "old")
          /\ Log(p, "cleanup_removed", "")
          /\ UNCHANGED err
       \/ /\ Exists(fs, "old")
          /\ fs' = hideFile(fs, "old")
          /\ Log(p, "cleanup_hidden", "")
          /\ err' = [err EXCEPT ![p] = "cleanup"]
       \/ /\ Log(p, "cleanup_left", "")
          /\ err' = [err EXCEPT ![p] = "cleanup"]
          /\ UNCHANGED fs
    /\ Goto(p, "result")
    /\ UNCHANGED <<Info, session, path, bin, errRecover, op, ret, want, pre, cb,
                   ncalls, avail, fetched>>

\* fromStream, promote succeeded: os.Remove(oldPath), and hideFile(oldPath)
\* when that fails; hideFile's own result is ignored.
cleanup(p) ==
    /\ pc[p] = "cleanup"
    /\ \/ /\ Exists(fs, "old")
          /\ fs' = Remove(fs, "old")
          /\ Log(p, "cleanup_removed", "")
       \/ /\ Exists(fs, "old")
          /\ fs' = hideFile(fs, "old")
          /\ Log(p, "cleanup_hidden", "")
       \/ /\ Log(p, "cleanup_left", "")
          /\ UNCHANGED fs
    /\ Goto(p, "result")
    /\ UNCHANGED <<Info, session, locals, op, ret, want, pre, cb, ncalls, avail, fetched>>

\* A result that checks err first and so drops errRecover.
ResultErrorDropsRecover(e, er) ==
    IF e # "" THEN <<e>>
    ELSE IF er # "" THEN <<e, er>>
    ELSE <<>>

\* The error Update / UpdateForce make of fromStream's (err, errRecover):
\* both, formatted into one, when errRecover is set; else err.
ResultError(e, er) ==
    IF er # "" THEN <<e, er>>
    ELSE IF e # "" THEN <<e>>
    ELSE <<>>

\* A result step that takes the installed version as the current one.
UpdateResultAdvances(p) ==
    /\ pc[p] = "result"
    /\ Return(p, ResultError(err[p], errRecover[p]))
    /\ IF ResultError(err[p], errRecover[p]) = <<>>
       THEN CurrentVersion' = Info
       ELSE UNCHANGED CurrentVersion
    /\ IF ResultError(err[p], errRecover[p]) = <<>> /\ OnSuccessfulUpdate
       THEN /\ cb' = [cb EXCEPT ![p] = @ + 1]
            /\ Log(p, "callback", "")
       ELSE UNCHANGED <<cb, steps>>
    /\ UNCHANGED <<fs, Info, Requester, OnSuccessfulUpdate, locals, op, want, pre,
                   ncalls, avail, fetched>>

\* Update / UpdateForce after fromStream: return the error, or run
\* OnSuccessfulUpdate if set and return nil.
UpdateResult(p) ==
    /\ pc[p] = "result"
    /\ Return(p, ResultError(err[p], errRecover[p]))
    /\ IF ResultError(err[p], errRecover[p]) = <<>> /\ OnSuccessfulUpdate
       THEN /\ cb' = [cb EXCEPT ![p] = @ + 1]
            /\ Log(p, "callback", "")
       ELSE UNCHANGED <<cb, steps>>
    /\ UNCHANGED <<fs, Info, session, locals, op, want, pre, ncalls, avail, fetched>>

\* ------------------------------------------------------------------- spec
Next ==
    \E p \in Procs :
        \/ Call(p)
        \/ BackgroundRun(p)
        \/ canUpdate(p)
        \/ Update(p)
        \/ FetchInfo(p)
        \/ Open(p)
        \/ fetchBin(p)
        \/ UpdateForce(p)
        \/ UpdateAvailable(p)
        \/ stage(p)
        \/ evacuate(p)
        \/ promote(p)
        \/ recover(p)
        \/ cleanup(p)
        \/ UpdateResult(p)

Spec == Init /\ [][Next]_vars

\* Two cycles on the one Updater and the one executable path, as when
\* BackgroundRun is started in a goroutine while another call is under way:
\* each cycle has one call to make, and their steps interleave.
InitConc ==
    /\ CurrentVersion = "1.1"
    /\ Info = ""
    /\ Requester = "nil"
    /\ OnSuccessfulUpdate = TRUE
    /\ fs = [q \in Paths |-> IF q = "exe" THEN RegFile(OrigImage, StagePerm) ELSE NoFile]
    /\ pc = [p \in Procs |-> "idle"]
    /\ op = [p \in Procs |-> ""]
    /\ path = [p \in Procs |-> ""]
    /\ bin = [p \in Procs |-> <<>>]
    /\ err = [p \in Procs |-> ""]
    /\ errRecover = [p \in Procs |-> ""]
    /\ ret = [p \in Procs |-> <<>>]
    /\ want = [p \in Procs |-> FALSE]
    /\ steps = [p \in Procs |-> <<>>]
    /\ pre = [p \in Procs |-> fs]
    /\ cb = [p \in Procs |-> 0]
    /\ ncalls = [p \in Procs |-> MaxCalls - 1]
    /\ avail = [p \in Procs |-> ""]
    /\ fetched = [p \in Procs |-> NoFetch]

SpecConc == InitConc /\ [][Next]_vars

\* ----------------------------------------------------------------- claims
Done(p) == pc[p] = "done"
Causes(p) == {ret[p][i] : i \in DOMAIN ret[p]}

\* The steps that change the file system.
MutEvents ==
    {"probe_ok", "probe_left", "stage_ok", "stage_partial", "old_removed",
     "evac_ok", "promote_ok", "recover_ok", "cleanup_removed", "cleanup_hidden"}
NoFsMutation(p) ==
    /\ fs = pre[p]
    /\ \A i \in DOMAIN steps[p] : steps[p][i][1] \notin MutEvents

\* C1: when evacuation succeeded, promotion failed and recovery succeeded,
\* the executable path holds again exactly the file it held before the call,
\* and the call returns the promote error alone.
C1_RecoveryRestores ==
    \A p \in Procs :
        (Has(p, "evac_ok") /\ Has(p, "promote_fail") /\ Has(p, "recover_ok")) =>
            /\ Exists(fs, "exe")
            /\ fs["exe"] = pre[p]["exe"]
            /\ ReadFile(fs, "exe") = ReadFile(pre[p], "exe")
            /\ Done(p) => ret[p] = <<"promote">>

C1_Witness ==
    /\ Done(1)
    /\ op[1] \in {"Update", "UpdateForce"}
    /\ Has(1, "recover_ok")
    /\ Exists(fs, "new")

\* C2: when promotion and recovery both failed, the call returns an error
\* that holds both causes, the promote failure and the recovery failure.
C2_DoubleFailure ==
    \A p \in Procs :
        (Done(p) /\ Has(p, "promote_fail") /\ Has(p, "recover_fail")) =>
            /\ ret[p] # <<>>
            /\ "promote" \in Causes(p)
            /\ "recover" \in Causes(p)

C2_Witness ==
    /\ Done(1)
    /\ Has(1, "recover_fail")
    /\ ~Exists(fs, "exe")

\* C3: a call that fetched and decoded an image B and returned nil leaves
\* exactly B at the executable path, no staged file, and a backup that is
\* absent or hidden. Stated for the calls whose cleanup removed or hid the
\* backup: a backup that could neither be removed nor hidden stays visible,
\* and is not what refutes the claim here.
C3_RoundTrip ==
    \A p \in Procs :
        (Done(p) /\ ret[p] = <<>> /\ Has(p, "artifact_ok")
            /\ ~Has(p, "cleanup_left")) =>
                /\ ReadFile(fs, "exe") = bin[p]
                /\ ~Exists(fs, "new")
                /\ ~Exists(fs, "old") \/ IsHidden(fs["old"])

\* C4: a failure to create the staged file or to write the image into it
\* aborts the transaction: the original is not renamed away, nothing is
\* renamed into its place, the executable stays the file it was, and the
\* call returns an error.
C4_StageFailureAborts ==
    \A p \in Procs :
        (Has(p, "stage_openfail") \/ Has(p, "stage_partial")) =>
            /\ ~Has(p, "evac_ok")
            /\ ~Has(p, "promote_ok")
            /\ fs["exe"] = pre[p]["exe"]
            /\ Done(p) => ret[p] # <<>>

\* C5: within one call the callback runs at most once, only after the
\* promote rename succeeded, and never when the versions matched, a fetch or
\* a decode failed, staging or evacuation failed, or promotion failed.
C5_CallbackOnlyAfterSwap ==
    \A p \in Procs :
        /\ cb[p] <= 1
        /\ cb[p] = Count(p, "callback")
        /\ cb[p] > 0 =>
            /\ Has(p, "promote_ok")
            /\ Pos(p, "promote_ok") < Pos(p, "callback")
            /\ ~HasEv(p, "manifest_ok", CurrentVersion)
            /\ Has(p, "artifact_ok")
            /\ ~Has(p, "stage_openfail") /\ ~Has(p, "stage_partial")
            /\ ~Has(p, "evac_fail")
            /\ ~Has(p, "promote_fail")

\* C6: UpdateForce does what Update does when the versions differ: it
\* resolves the manifest first, then requests the artifact of the manifest's
\* version.
C6_ForceResolvesManifest ==
    \A p \in Procs :
        (op[p] = "UpdateForce" /\ Has(p, "artifact_req")) =>
            /\ Has(p, "manifest_ok")
            /\ Pos(p, "manifest_ok") < Pos(p, "artifact_req")
            /\ \E v \in ManifestVersions :
                HasEv(p, "manifest_ok", v) /\ HasEv(p, "artifact_req", v)

\* C7: with CurrentVersion "dev", Update makes no request and returns nil
\* (stated for the calls in which os.Executable did not fail).
C7_DevUpdateNoRequest ==
    \A p \in Procs :
        (op[p] = "Update" /\ CurrentVersion = Dev /\ ret[p] # <<"exe">>) =>
            /\ ~Has(p, "manifest_req")
            /\ ~Has(p, "artifact_req")
            /\ Done(p) => ret[p] = <<>>

\* C8: WantUpdate is false exactly for CurrentVersion "dev", and then
\* BackgroundRun returns nil at once: no request, no probe, no change to the
\* file system.
C8_DevBackgroundRun ==
    \A p \in Procs :
        (op[p] = "BackgroundRun" /\ pc[p] # "BackgroundRun") =>
            /\ want[p] = FALSE <=> CurrentVersion = Dev
            /\ CurrentVersion = Dev =>
                /\ Done(p)
                /\ ret[p] = <<>>
                /\ steps[p] = <<>>
                /\ NoFsMutation(p)

C8_Witness ==
    /\ Done(1)
    /\ op[1] = "BackgroundRun"
    /\ CurrentVersion = Dev
    /\ ncalls[1] = 2
    /\ fs["exe"].content # OrigImage

\* C9: when the reported executable path is a symlink, a successful Update
\* leaves the symlink in place and the new image in the file it points to
\* (stated for a session that is not "dev" and a staging that wrote the whole
\* image).
C9_SymlinkResolved ==
    \A p \in Procs :
        (op[p] = "Update" /\ CurrentVersion # Dev /\ Done(p) /\ ret[p] = <<>>
            /\ Has(p, "stage_ok") /\ Has(p, "promote_ok")
            /\ pre[p]["exe"].kind = "link") =>
                /\ fs["exe"].kind = "link"
                /\ fs["target"].content = bin[p]

\* C10: an Update call whose fetched manifest version equals CurrentVersion
\* changes nothing in the file system, requests no artifact, does not run
\* the callback and returns nil.
C10_UpToDateNoOp ==
    \A p \in Procs :
        (op[p] = "Update" /\ HasEv(p, "manifest_ok", CurrentVersion)) =>
            /\ Done(p)
            /\ ret[p] = <<>>
            /\ NoFsMutation(p)
            /\ ~Has(p, "artifact_req")
            /\ cb[p] = 0

C10_Witness ==
    /\ Done(1)
    /\ op[1] = "Update"
    /\ ncalls[1] = 2
    /\ HasEv(1, "manifest_ok", CurrentVersion)
    /\ OnSuccessfulUpdate

\* ----------------------------------------------------------------- C11
\* u.Info.Version as the manifest request of the cycle's call left it.
ManifestVersion(p) == steps[p][Pos(p, "manifest_ok")][2]

Resolved(p) ==
    /\ Done(p) /\ op[p] = "UpdateAvailable" /\ ret[p] = <<>>
    /\ Has(p, "manifest_ok")

\* C11 as stated: with the manifest resolved, UpdateAvailable returns the
\* empty string if and only if the manifest version equals CurrentVersion,
\* and the manifest version otherwise.
C11_EmptyIffEqual ==
    \A p \in Procs :
        Resolved(p) =>
            /\ (avail[p] = "") <=> (ManifestVersion(p) = CurrentVersion)
            /\ ManifestVersion(p) # CurrentVersion => avail[p] = ManifestVersion(p)

\* C11 amended: with the manifest resolved, UpdateAvailable returns the empty
\* string when u.Info.Version equals CurrentVersion and u.Info.Version
\* otherwise, whatever the order of the two versions; the result is empty as
\* well when the versions differ and u.Info.Version is itself empty.
C11_AvailableVersion ==
    \A p \in Procs :
        Resolved(p) =>
            /\ ManifestVersion(p) = CurrentVersion => avail[p] = ""
            /\ ManifestVersion(p) # CurrentVersion => avail[p] = ManifestVersion(p)
            /\ avail[p] = "" =>
                   ManifestVersion(p) = CurrentVersion \/ ManifestVersion(p) = ""

\* A downgrade is announced: the manifest says 1.0 to a session running 1.1.
C11_Witness ==
    \E p \in Procs :
        /\ Resolved(p)
        /\ CurrentVersion = "1.1"
        /\ ManifestVersion(p) = "1.0"
        /\ avail[p] = "1.0"

\* ----------------------------------------------------------------- C12
\* The steps of fromStream that touch the file system.
TransactionEvents == MutEvents \ {"probe_ok", "probe_left"}

\* The last request of the cycle's call got no usable answer.
FetchFailed(p) ==
    \/ Has(p, "manifest_req") /\ ~Has(p, "manifest_ok")
    \/ Has(p, "artifact_req") /\ ~Has(p, "artifact_ok")

\* The error of that request: fetch's own, or the decoder's.
FetchError(p) ==
    IF fetched[p].r.err # "" THEN fetched[p].r.err ELSE "decode"

\* C12: an Update call (direct, or made by BackgroundRun) issues at most one
\* manifest request and at most one artifact request, the artifact request
\* only after the manifest request succeeded; every step of the replacement
\* transaction comes after the artifact was obtained; and when a fetch or its
\* decoding fails the call has returned that error alone, with no step of the
\* transaction taken and, for a direct Update, the file system as it was.
C12_FetchBeforeMutation ==
    \A p \in Procs :
        op[p] \in {"Update", "BackgroundRun"} =>
            /\ Count(p, "manifest_req") <= 1
            /\ Count(p, "artifact_req") <= 1
            /\ Has(p, "artifact_req") =>
                   /\ Has(p, "manifest_ok")
                   /\ Pos(p, "manifest_ok") < Pos(p, "artifact_req")
            /\ \A i \in DOMAIN steps[p] :
                   steps[p][i][1] \in TransactionEvents =>
                       /\ Has(p, "artifact_ok")
                       /\ Pos(p, "artifact_ok") < i
            /\ FetchFailed(p) =>
                   /\ Done(p)
                   /\ ret[p] = <<FetchError(p)>>
                   /\ op[p] = "Update" => NoFsMutation(p)

\* A late failure: the manifest was read, the artifact came back and did not
\* decompress; the call returned that error over an untouched file system.
C12_Witness ==
    \E p \in Procs :
        /\ op[p] = "Update" /\ Done(p)
        /\ Has(p, "manifest_ok") /\ Has(p, "artifact_req") /\ ~Has(p, "artifact_ok")
        /\ ret[p] = <<"decode">>
        /\ fs = pre[p]

\* ----------------------------------------------------------------- C13
\* The cycle is in a BackgroundRun that wants an update.
Probing(p) == op[p] = "BackgroundRun" /\ CurrentVersion # Dev

\* The probe file was created: its removal worked, or failed unnoticed.
Probed(p) == Has(p, "probe_ok") \/ Has(p, "probe_left")
ProbePos(p) ==
    IF Has(p, "probe_ok") THEN Pos(p, "probe_ok") ELSE Pos(p, "probe_left")

\* The cycle is about to issue the first request of its call.
AtFirstFetch(p) == pc[p] \in {"Update", "FetchInfo"}

ProbeFirst(p) ==
    /\ Has(p, "manifest_req") =>
           Probed(p) /\ ProbePos(p) < Pos(p, "manifest_req")
    /\ Has(p, "probe_fail") =>
           /\ Done(p) /\ ret[p] = <<"probe">>
           /\ ~Has(p, "manifest_req") /\ ~Has(p, "artifact_req")
           /\ fetched[p] = NoFetch

ReportedSuccess(p) ==
    /\ ret[p] = <<>>
    /\ OnSuccessfulUpdate => cb[p] = 1 /\ Has(p, "callback")

\* C14: after a successful promote, a backup that could not be deleted is
\* hidden when hideFile works; and whether the backup was deleted, hidden or
\* left as it was, and whether or not an earlier backup could be deleted
\* before the evacuation, the call returns nil and runs the success callback.
C14_CleanupNonFatal ==
    \A p \in Procs :
        Has(p, "promote_ok") /\ Done(p) =>
            /\ ReportedSuccess(p)
            /\ Has(p, "cleanup_hidden") =>
                   Exists(fs, "old") /\ IsHidden(fs["old"])
            /\ Has(p, "cleanup_removed") => ~Exists(fs, "old")

\* All three failures in one call: the earlier backup could not be deleted,
\* the new backup could be neither deleted nor hidden.
C14_Witness ==
    \E p \in Procs :
        /\ Done(p) /\ ret[p] = <<>> /\ cb[p] = 1
        /\ Has(p, "old_remove_fail") /\ Has(p, "promote_ok")
        /\ Has(p, "cleanup_left")
        /\ Exists(fs, "old") /\ ~IsHidden(fs["old"])

\* ----------------------------------------------------------------- C15
\* A transaction whose promote failed and whose recovery succeeded, over a
\* fully written staged file.
Recovered(p) ==
    /\ Done(p)
    /\ Has(p, "stage_ok") /\ Has(p, "promote_fail") /\ Has(p, "recover_ok")

\* C15: after a transaction in which promote failed and recovery succeeded,
\* neither the staged file .name.new nor the backup .name.old remains beside
\* the executable.
C15_RecoveredLeavesNothing ==
    \A p \in Procs :
        Recovered(p) => ~Exists(fs, "new") /\ ~Exists(fs, "old")

\* ----------------------------------------------------------------- C16
\* The permission bits of the executable when the call began.
OrigPerm(p) == pre[p][EvalSymlinks(pre[p], "exe")].perm

\* C16: the staged file, and after a successful transaction the file at the
\* executable path, carries the permission bits the executable had before
\* the call, whatever they were.
C16_PermissionPreserved ==
    \A p \in Procs :
        Has(p, "stage_ok") /\ pre[p]["exe"].kind = "file" =>
            /\ pc[p] = "evacuate" => fs["new"].perm = OrigPerm(p)
            /\ Done(p) /\ ret[p] = <<>> /\ Has(p, "promote_ok") =>
                   fs["exe"].perm = OrigPerm(p)

\* ----------------------------------------------------------------- C17
\* C17: whatever the requester met, Updater.fetch returned a stream or an
\* error, never neither and never both: an injected Requester's (nil, nil)
\* has become an error, and so has every response of the default HTTP
\* requester whose status is not 200.
C17_FetchNeverNilNil ==
    \A p \in Procs :
        LET w == fetched[p].w
            r == fetched[p].r
        IN  w.t # "none" =>
                /\ r.rc <=> r.err = ""
                /\ w.t = "nilnil" => r.err # ""
                /\ Requester = "nil" /\ w.t = "resp" /\ w.status # StatusOK =>
                       r.err # ""

\* An injected Requester returned (nil, nil) for the manifest, and the call
\* ended with fetch's error.
C17_Witness ==
    \E p \in Procs :
        /\ Done(p)
        /\ Requester = "custom"
        /\ fetched[p].w.t = "nilnil"
        /\ ~fetched[p].r.rc
        /\ ret[p] = <<"nilrc">>

\* ----------------------------------------------------------------- C18
\* The call is an Update or an UpdateForce made by the caller.
Direct(p) == op[p] \in {"Update", "UpdateForce"}

\* The error returned is not the combined update-and-recovery error.
NotCombined(p) == Len(ret[p]) < 2

\* A failed evacuation ends the transaction: the executable is as the call
\* found it, no later rename is tried, one error is returned.
EvacFailureStops(p) ==
    Has(p, "evac_fail") =>
        /\ fs["exe"] = pre[p]["exe"]
        /\ fs["target"] = pre[p]["target"]
        /\ ~Has(p, "promote_ok") /\ ~Has(p, "promote_fail")
        /\ ~Has(p, "recover_ok") /\ ~Has(p, "recover_fail")
        /\ Done(p) => ret[p] = <<"evacuate">>

\* C18 as stated: whenever Update or UpdateForce returns anything but the
\* combined error, a file exists at the executable path; and a failed
\* evacuation leaves the original in place, returns a single error and tries
\* neither promote nor recovery.
C18_ExecutablePresent ==
    \A p \in Procs :
        Direct(p) =>
            /\ Done(p) /\ NotCombined(p) => Exists(fs, "exe")
            /\ EvacFailureStops(p)

\* C18 amended: whenever Update or UpdateForce returns anything but the
\* combined error, a file exists at the executable path if one existed when
\* the call began; and a failed evacuation leaves the original in place,
\* returns a single error and tries neither promote nor recovery.
C18_ExecutableKept ==
    \A p \in Procs :
        Direct(p) =>
            /\ Done(p) /\ NotCombined(p) /\ Exists(pre[p], "exe") =>
                   Exists(fs, "exe")
            /\ EvacFailureStops(p)

\* The evacuate rename failed after the image was staged and an earlier
\* backup removed.
C18_Witness ==
    \E p \in Procs :
        /\ Direct(p) /\ Done(p)
        /\ Has(p, "stage_ok") /\ Has(p, "old_removed") /\ Has(p, "evac_fail")
        /\ ret[p] = <<"evacuate">>
        /\ Exists(fs, "exe") /\ ReadFile(fs, "exe") = ReadFile(pre[p], "exe")

\* ----------------------------------------------------------------- C19
\* An Update that read a manifest version other than CurrentVersion and
\* returned nil did the whole work: artifact fetched, image swapped in,
\* callback run if set.
DifferingUpdateRuns(p) ==
    /\ op[p] = "Update" /\ Done(p) /\ ret[p] = <<>>
    /\ Has(p, "manifest_ok") /\ ManifestVersion(p) # CurrentVersion
    =>  /\ Has(p, "artifact_ok")
        /\ Has(p, "evac_ok") /\ Has(p, "promote_ok")
        /\ OnSuccessfulUpdate => cb[p] = 1

\* C19: no step of any call changes CurrentVersion, a successful swap
\* included; so every Update that meets a manifest version different from
\* CurrentVersion, the first on a session or a later one, fetches the
\* artifact, replaces the executable and runs the callback before it
\* returns nil.
C19_CurrentVersionKept ==
    [][/\ CurrentVersion' = CurrentVersion
       /\ \A p \in Procs : DifferingUpdateRuns(p)']_vars

\* The second call of a session whose first call already swapped the image
\* in: the manifest still says 1.0 to CurrentVersion 1.1, and the update is
\* done all over again.
C19_Witness ==
    \E p \in Procs :
        /\ ncalls[p] = 2 /\ op[p] = "Update" /\ Done(p) /\ ret[p] = <<>>
        /\ pre[p]["exe"].content = ImageOf(p)
        /\ Has(p, "manifest_ok") /\ Has(p, "artifact_ok") /\ Has(p, "promote_ok")
        /\ CurrentVersion = "1.1" /\ ManifestVersion(p) = "1.0"
        /\ cb[p] = 1

\* ----------------------------------------------------------------- C20
\* Every cycle has made its call and was told it succeeded.
AllReturnedNil == \A p \in Procs : Done(p) /\ ret[p] = <<>>

\* Both cycles are BackgroundRun or Update calls.
UpdateCycles == \A p \in Procs : op[p] \in {"BackgroundRun", "Update"}

\* No step of either cycle met a failure of the file system halfway: every
\* staging wrote its whole image, every probe removed its file.
WholeSteps == \A p \in Procs : ~Has(p, "stage_partial") /\ ~Has(p, "probe_left")

\* The images the cycles fetched, and the one that was there before.
FetchedImages == {ImageOf(p) : p \in Procs}
HoldsFetchedImage(f) == Exists(f, "exe") /\ ReadFile(f, "exe") \in FetchedImages
HoldsWholeImage(f) ==
    Exists(f, "exe") /\ ReadFile(f, "exe") \in FetchedImages \cup {OrigImage}

====
